---- MODULE Spec2Model ----
(***************************************************************************)
(* OrderProcessingService (exam.py): one call of process_orders(user_id).  *)
(* The persistence layer, the remote client and the report file are the    *)
(* environment: every call to them returns or raises, chosen               *)
(* nondeterministically.  Amounts are modelled as integers (the code       *)
(* compares them with the integer thresholds 100, 150 and 200 only).       *)
(***************************************************************************)
EXTENDS Integers, Sequences, FiniteSets, TLC

\* ---------------------------------------------------------------- bounds
\* Longest order list get_orders_by_user returns in the model.
MaxOrders == 2

\* ------------------------------------------------------ program constants
\* exam.py:139  api_response.data >= 50
ApiDataLimit == 50
\* exam.py:139  order.amount < 100
ProcessedAmountLimit == 100
\* exam.py:126  order.amount > 150
HighValueLimit == 150
\* exam.py:159  order.amount > 200
HighPriorityLimit == 200

\* class OrderStatus
OrderStatus ==
    {"new", "pending", "processed", "in_progress", "completed", "unknown_type",
     "error", "exported", "export_failed", "api_error", "api_failure", "db_error"}

\* class OrderPriority
OrderPriority == {"high", "low"}

\* class APIStatus
APIStatus == {"success", "error"}

\* --------------------------------------------------------------- inputs
\* Order types: the three the dispatch knows and one it does not.
Types == {"A", "B", "C", "D"}

\* Amounts on both sides of every threshold the pipeline compares an order of
\* the type with: 150 (report note) and 200 (priority) for A, 100 (processed)
\* for B with a high-priority amount, 200 (priority) for the others.
Amounts(type) ==
    IF type = "A" THEN {HighValueLimit, HighPriorityLimit, HighPriorityLimit + 1}
    ELSE IF type = "B"
         THEN {ProcessedAmountLimit - 1, ProcessedAmountLimit, HighPriorityLimit + 1}
         ELSE {HighPriorityLimit, HighPriorityLimit + 1}

\* Flags: both values on the paths that read the flag (the report row of A,
\* the status of B and C).
Flags(type) == IF type \in {"A", "B", "C"} THEN BOOLEAN ELSE {FALSE}

\* Priorities an order can enter with: low as constructed; high as well (an
\* order object changed after construction) at the threshold amount, where
\* the pipeline has to lower it.
Priorities(amount) ==
    IF amount = HighPriorityLimit THEN {"low", "high"} ELSE {"low"}

\* The (type, amount, flag, priority) an order can enter the batch with.
OrderInputs ==
    {<<t, a, f, p>> \in Types \X (0..(HighPriorityLimit + 1)) \X BOOLEAN \X OrderPriority :
        a \in Amounts(t) /\ f \in Flags(t) /\ p \in Priorities(a)}

\* Order.__init__ for the order at position k of the fetched list: the id is
\* distinct per position and the status starts at new.
Order(k, in) ==
    [id |-> 10 + k, type |-> in[1], amount |-> in[2], flag |-> in[3],
     status |-> "new", priority |-> in[4]]

\* The list of Len(ins) orders built from the given inputs.
OrderList(ins) == [k \in 1..Len(ins) |-> Order(k, ins[k])]

\* APIResponse(status, data) values call_api can return.
APIResponse ==
    [status : APIStatus, data : {ApiDataLimit - 1, ApiDataLimit}]

NoResponse == [status |-> "none", data |-> 0]

\* ----------------------------------------------------------- exceptions
\* An exception class of the program, or RuntimeError standing for any other
\* subclass of Exception a collaborator can raise.
Exceptions == {"IOError", "APIException", "DatabaseException", "RuntimeError"}

\* isinstance(e, cls) for the classes above; all of them derive from Exception.
IsInstance(e, cls) == cls = "Exception" \/ e = cls

\* The class each except clause names.
ExceptTypeA_APIException == "APIException"
ExceptTypeA == "IOError"

ExceptTypeB_Exception == "Exception"
ExceptTypeB_OnlyIOError == "IOError"
ExceptTypeB_DatabaseException == "DatabaseException"
ExceptTypeB == "APIException"

ExceptSave_APIException == "APIException"
ExceptSave == "DatabaseException"

ExceptBatch_OnlyIOError == "IOError"
ExceptBatch == "Exception"

VARIABLES
    orders,        \* the Order objects get_orders_by_user returns (mutable)
    pc,            \* position inside process_orders
    i,             \* position of the order in the pipeline, 0 outside the loop
    csv_file,      \* the local csv_file of process_orders: "none" until assigned
    report,        \* rows of the report file, as text
    files,         \* number of report files opened with mode 'w'
    api_response,  \* the local api_response of _process_type_b_order
    calls,         \* collaborator calls so far, with their outcome
    result,        \* return value of process_orders: "none", "True", "False"
    raised         \* exception that left process_orders, "none" otherwise

vars == <<orders, pc, i, csv_file, report, files, api_response, calls, result, raised>>

\* One entry of the call log.
Call(op, idx, id, status, priority, outcome) ==
    [op |-> op, idx |-> idx, id |-> id, status |-> status,
     priority |-> priority, outcome |-> outcome]

Init ==
    /\ \E n \in 0..MaxOrders :
          \E ins \in [1..n -> OrderInputs] : orders = OrderList(ins)
    /\ pc = "fetch"
    /\ i = 0
    /\ csv_file = "none"
    /\ report = <<>>
    /\ files = 0
    /\ api_response = NoResponse
    /\ calls = <<>>
    /\ result = "none"
    /\ raised = "none"

\* ------------------------------------------------------- pure decisions
\* str(order.flag).lower()
FlagText(flag) == IF flag THEN "true" ELSE "false"

\* The header _create_csv_file writes.
Header == <<"ID", "Type", "Amount", "Flag", "Status", "Priority">>

\* The annotation row of _process_type_a_order.
NoteRow == <<"", "", "", "", "Note", "High value order">>

DataRow_AfterProcessing(order) ==
    <<ToString(order.id), order.type, ToString(order.amount), FlagText(order.flag),
      "exported", IF order.amount > HighPriorityLimit THEN "high" ELSE "low">>

\* The data row of _process_type_a_order, as csv text.
DataRow(order) ==
    <<ToString(order.id), order.type, ToString(order.amount), FlagText(order.flag),
      order.status, order.priority>>

IsHighValue_Inclusive(order) == order.amount >= HighValueLimit

\* order.amount > 150
IsHighValue(order) == order.amount > HighValueLimit

CsvRows_WithHeader(order) ==
    IF IsHighValue(order) THEN <<Header, DataRow(order), NoteRow>>
    ELSE <<Header, DataRow(order)>>

\* The rows _process_type_a_order hands to the writer, in order.
CsvRows(order) ==
    IF IsHighValue(order) THEN <<DataRow(order), NoteRow>> ELSE <<DataRow(order)>>

TypeBStatus_FlagFirst(order, response) ==
    IF response.status = "success"
    THEN IF order.flag
         THEN "pending"
         ELSE IF response.data >= ApiDataLimit /\ order.amount < ProcessedAmountLimit
              THEN "processed"
              ELSE IF response.data < ApiDataLimit THEN "pending" ELSE "error"
    ELSE "api_error"

\* The status _process_type_b_order derives from a returned response.
TypeBStatus(order, response) ==
    IF response.status = "success"
    THEN IF response.data >= ApiDataLimit /\ order.amount < ProcessedAmountLimit
         THEN "processed"
         ELSE IF response.data < ApiDataLimit \/ order.flag
              THEN "pending"
              ELSE "error"
    ELSE "api_error"

TypeCStatus_NoElse(order) == IF order.flag THEN "completed" ELSE order.status

TypeCStatus_Swapped(order) == IF order.flag THEN "in_progress" ELSE "completed"

\* The status _process_type_c_order sets.
TypeCStatus(order) == IF order.flag THEN "completed" ELSE "in_progress"

PriorityOf_Inclusive(order) ==
    IF order.amount >= HighPriorityLimit THEN "high" ELSE "low"

\* The priority _update_order_priority sets.
PriorityOf(order) == IF order.amount > HighPriorityLimit THEN "high" ELSE "low"

\* ------------------------------------------------------------ the steps
\* An exception reaches the try/except of process_orders.
Propagate(e) ==
    /\ pc' = "done"
    /\ result' = IF IsInstance(e, ExceptBatch) THEN "False" ELSE "none"
    /\ raised' = IF IsInstance(e, ExceptBatch) THEN "none" ELSE e

\* The step returns normally and process_orders goes on at nextpc.
Continue(nextpc) ==
    /\ pc' = nextpc
    /\ UNCHANGED <<result, raised>>

SetStatus_ResetsPriority(s) ==
    orders' = [orders EXCEPT ![i].status = s, ![i].priority = "low"]

\* order.status = s for the order in the pipeline.
SetStatus(s) == orders' = [orders EXCEPT ![i].status = s]

\* process_orders returns v.
Return(v) ==
    /\ pc' = "done"
    /\ result' = v
    /\ raised' = raised

NoOrders_Never(os) == FALSE
\* `not orders`: the fetched list is empty.
NoOrders(os) == os = <<>>

\* process_orders, lines 75-77: the fetch and the early return on no orders.
get_orders_by_user ==
    /\ pc = "fetch"
    /\ \E e \in {"ok", "DatabaseException", "RuntimeError"} :
          /\ calls' = Append(calls, Call("fetch", 0, 0, "-", "-", e))
          /\ IF e = "ok"
             THEN IF NoOrders(orders) THEN Return("False") ELSE Continue("create")
             ELSE Propagate(e)
    /\ UNCHANGED <<orders, i, csv_file, report, files, api_response>>

\* _create_csv_file: open(csv_file, 'w') and the header row.  The open can fail
\* (no file), or the write or close can fail (a file, with or without header).
create_csv_file ==
    /\ pc = "create"
    /\ \E e \in {"ok", "IOError"}, opened \in BOOLEAN, kept \in 0..1 :
          /\ e = "ok" => (opened /\ kept = 1)
          /\ ~opened => kept = 0
          /\ files' = IF opened THEN files + 1 ELSE files
          /\ report' = IF kept = 1 THEN <<Header>> ELSE <<>>
          /\ calls' = Append(calls, Call("create", 0, 0, "-", "-", e))
          /\ IF e = "ok"
             THEN /\ csv_file' = "orders_type_A.csv"
                  /\ IF Len(orders) > 0
                     THEN i' = 1 /\ Continue("dispatch")
                     ELSE i' = i /\ Return("True")
             ELSE csv_file' = csv_file /\ i' = i /\ Propagate(e)
    /\ UNCHANGED <<orders, api_response>>

\* _process_type_a_order: append the rows; IOError becomes export_failed.
process_type_a_order ==
    LET order == orders[i]
        rows == CsvRows(order)
    IN  \E e \in {"ok", "IOError"}, kept \in 0..Len(rows) :
          /\ e = "ok" => kept = Len(rows)
          /\ report' = report \o SubSeq(rows, 1, kept)
          /\ calls' = Append(calls,
                 Call("append", i, order.id, order.status, order.priority, e))
          /\ api_response' = api_response
          /\ IF e = "ok"
             THEN SetStatus("exported") /\ Continue("priority")
             ELSE IF IsInstance(e, ExceptTypeA)
                  THEN SetStatus("export_failed") /\ Continue("priority")
                  ELSE orders' = orders /\ Propagate(e)

\* _process_type_b_order: call_api(order.id); APIException becomes api_failure.
process_type_b_order ==
    LET order == orders[i]
    IN  \/ \E response \in APIResponse :
             /\ calls' = Append(calls, Call("call_api", i, order.id, "-", "-", "ok"))
             /\ api_response' = response
             /\ SetStatus(TypeBStatus(order, response))
             /\ Continue("priority")
             /\ report' = report
        \/ \E e \in {"APIException", "RuntimeError"} :
             /\ calls' = Append(calls, Call("call_api", i, order.id, "-", "-", e))
             /\ api_response' = NoResponse
             /\ report' = report
             /\ IF IsInstance(e, ExceptTypeB)
                THEN SetStatus("api_failure") /\ Continue("priority")
                ELSE orders' = orders /\ Propagate(e)

\* _process_type_c_order
process_type_c_order ==
    /\ SetStatus(TypeCStatus(orders[i]))
    /\ Continue("priority")
    /\ UNCHANGED <<report, calls, api_response>>

Handler_UnknownAsA(type) ==
    IF type = "B" THEN "type_b"
    ELSE IF type = "C" THEN "type_c"
    ELSE "type_a"

Handler_CAsB(type) ==
    IF type = "A" THEN "type_a"
    ELSE IF type \in {"B", "C"} THEN "type_b"
    ELSE "unknown"

\* The branch of _process_order_by_type an order type takes.
Handler(type) ==
    IF type = "A" THEN "type_a"
    ELSE IF type = "B" THEN "type_b"
    ELSE IF type = "C" THEN "type_c"
    ELSE "unknown"

\* _process_order_by_type: the dispatch on order.type.
process_order_by_type ==
    /\ pc = "dispatch"
    /\ LET handler == Handler(orders[i].type)
       IN  IF handler = "type_a" THEN process_type_a_order
           ELSE IF handler = "type_b" THEN process_type_b_order
           ELSE IF handler = "type_c" THEN process_type_c_order
           ELSE /\ SetStatus("unknown_type")
                /\ Continue("priority")
                /\ UNCHANGED <<report, calls, api_response>>
    /\ UNCHANGED <<i, csv_file, files>>

update_order_priority_WholeBatch ==
    /\ pc = "priority"
    /\ orders' = [j \in DOMAIN orders |->
                     [orders[j] EXCEPT !.priority = PriorityOf(orders[j])]]
    /\ api_response' = NoResponse
    /\ Continue("save")
    /\ UNCHANGED <<i, csv_file, report, files, calls>>

\* _update_order_priority; the response local to _process_type_b_order is
\* out of scope by now.
update_order_priority ==
    /\ pc = "priority"
    /\ orders' = [orders EXCEPT ![i].priority = PriorityOf(orders[i])]
    /\ api_response' = NoResponse
    /\ Continue("save")
    /\ UNCHANGED <<i, csv_file, report, files, calls>>

SaveCalls_Retry(idx, order, e) ==
    IF e = "DatabaseException"
    THEN <<Call("update_order_status", idx, order.id, order.status, order.priority, e),
           Call("update_order_status", idx, order.id, "db_error", order.priority, "ok")>>
    ELSE <<Call("update_order_status", idx, order.id, order.status, order.priority, e)>>

SaveCalls_SkipFailed(idx, order, e) ==
    IF order.status \in {"export_failed", "api_failure"}
    THEN <<>>
    ELSE <<Call("update_order_status", idx, order.id, order.status, order.priority, e)>>

\* The calls _save_order_status makes for the order at position idx, with
\* outcome e: one update_order_status(order.id, order.status, order.priority).
SaveCalls(idx, order, e) ==
    <<Call("update_order_status", idx, order.id, order.status, order.priority, e)>>

\* _save_order_status, then the next order of the loop or return True.
save_order_status ==
    /\ pc = "save"
    /\ LET order == orders[i]
       IN \E e \in {"ok", "DatabaseException", "RuntimeError"} :
            /\ calls' = calls \o SaveCalls(i, order, e)
            /\ IF e = "ok" \/ IsInstance(e, ExceptSave)
               THEN /\ orders' = IF e = "ok" THEN orders
                                  ELSE [orders EXCEPT ![i].status = "db_error"]
                    /\ IF i < Len(orders)
                       THEN i' = i + 1 /\ Continue("dispatch")
                       ELSE i' = i /\ Return("True")
               ELSE orders' = orders /\ i' = i /\ Propagate(e)
    /\ UNCHANGED <<csv_file, report, files, api_response>>

Next ==
    \/ get_orders_by_user
    \/ create_csv_file
    \/ process_order_by_type
    \/ update_order_priority
    \/ save_order_status

Spec == Init /\ [][Next]_vars

\* ------------------------------------------------------------- the claims
Done == pc = "done"

\* The run got past the fetch (a non-empty list) and the report creation.
BatchStarted == csv_file # "none"

\* The failure each per-order collaborator call is documented to end in.
DeclaredFailure(op) ==
    IF op = "append" THEN "IOError"
    ELSE IF op = "call_api" THEN "APIException"
    ELSE IF op = "update_order_status" THEN "DatabaseException"
    ELSE "-"

PerOrderOps == {"append", "call_api", "update_order_status"}

\* Positions of the log holding a call of op.
CallsOf(op) == {k \in DOMAIN calls : calls[k].op = op}

\* Some per-order call failed otherwise than with its declared failure.
UndeclaredFailure ==
    \E k \in DOMAIN calls :
        /\ calls[k].op \in PerOrderOps
        /\ calls[k].outcome \notin {"ok", DeclaredFailure(calls[k].op)}

\* C1 as stated: once the fetch returned orders and the report was created,
\* process_orders returns True whichever per-order collaborator calls fail.
C1_TrueWhateverFails ==
    (Done /\ BatchStarted) => result = "True"

\* C1 (amended): once the fetch returned orders and the report was created,
\* process_orders returns True whichever per-order collaborator calls fail with
\* the failure their step handles (IOError on the append, APIException from
\* call_api, DatabaseException from update_order_status), however many orders
\* end in a failure status.
C1_TrueWhenFailuresDeclared ==
    (Done /\ BatchStarted /\ ~UndeclaredFailure) => result = "True"

\* A run that returned True although an append, a remote call and a
\* persistence update failed.
C1_Witness ==
    /\ Done
    /\ result = "True"
    /\ \A op \in PerOrderOps :
          \E k \in CallsOf(op) : calls[k].outcome = DeclaredFailure(op)
    /\ \A j \in DOMAIN orders : orders[j].status = "db_error"

\* C2: no exception leaves process_orders, and a run in which the fetch, the
\* report creation or a per-order step raised a failure that no order-level
\* handler takes ends with False.
C2_NeverRaises ==
    /\ raised = "none"
    /\ \A k \in DOMAIN calls :
          calls[k].outcome \notin {"ok", DeclaredFailure(calls[k].op)}
             => (Done /\ result = "False" /\ k = Len(calls))

\* A per-order step (the remote call of the second order) raised an
\* exception its handler does not take, and the run returned False.
C2_Witness ==
    /\ Done
    /\ result = "False"
    /\ Len(calls) > 2
    /\ calls[Len(calls)].op = "call_api"
    /\ calls[Len(calls)].idx = 2
    /\ calls[Len(calls)].outcome = "RuntimeError"

\* C3: when the fetch returns no orders, process_orders returns False and
\* the run creates no report, updates no order and calls no remote service.
C3_EmptyFetch ==
    (calls # <<>> /\ calls[1].outcome = "ok" /\ orders = <<>>)
      => /\ Done
         /\ result = "False"
         /\ files = 0
         /\ csv_file = "none"
         /\ report = <<>>
         /\ Len(calls) = 1

\* The fetch returned an empty list and the run is over.
C3_Witness ==
    /\ Done
    /\ orders = <<>>
    /\ Len(calls) = 1
    /\ calls[1].op = "fetch"
    /\ calls[1].outcome = "ok"

\* The order in the pipeline has just left the dispatch step.
AfterDispatch == pc = "priority"

\* The last call of the log.
LastCall == calls[Len(calls)]

\* C4: for a type-B order whose remote call returned a response, the dispatch
\* step sets api_error if the response is not a success; otherwise processed
\* if payload >= 50 and amount < 100; otherwise pending if payload < 50 or
\* the flag is set; otherwise error.  So error is reached exactly on success,
\* payload >= 50, amount >= 100 and no flag.
C4_TypeBStatus ==
    (AfterDispatch /\ orders[i].type = "B" /\ LastCall.outcome = "ok")
      => LET o == orders[i]
             r == api_response
         IN  /\ LastCall.op = "call_api" /\ LastCall.idx = i
             /\ r.status # "success" => o.status = "api_error"
             /\ (r.status = "success" /\ r.data >= 50 /\ o.amount < 100)
                   => o.status = "processed"
             /\ (r.status = "success" /\ ~(r.data >= 50 /\ o.amount < 100)
                    /\ (r.data < 50 \/ o.flag))
                   => o.status = "pending"
             /\ o.status = "error"
                   <=> (r.status = "success" /\ r.data >= 50 /\ o.amount >= 100 /\ ~o.flag)

\* A success with payload >= 50 for a flagged order of amount >= 100: pending.
C4_Witness ==
    /\ AfterDispatch
    /\ orders[i].type = "B"
    /\ LastCall.op = "call_api" /\ LastCall.outcome = "ok"
    /\ api_response.status = "success"
    /\ api_response.data >= 50
    /\ orders[i].amount >= 100
    /\ orders[i].flag
    /\ orders[i].status = "pending"

\* After a remote call at position k of the log that raised: the order is
\* api_failure, nothing escaped, and the priority update and the persistence
\* update of that order follow.
RemoteFailureContained(k) ==
    LET j == calls[k].idx
    IN  IF k = Len(calls)
        THEN /\ pc \in {"priority", "save"}
             /\ i = j
             /\ orders[j].status = "api_failure"
             /\ result = "none"
             /\ raised = "none"
        ELSE /\ calls[k + 1].op = "update_order_status"
             /\ calls[k + 1].idx = j
             /\ calls[k + 1].status = "api_failure"
             /\ calls[k + 1].priority = (IF orders[j].amount > 200 THEN "high" ELSE "low")

\* C5 as stated: whenever call_api raises, whatever it raises, the order
\* becomes api_failure, the failure stays inside the order and the priority
\* update and the persistence update follow.
C5_AnyThrownContained ==
    \A k \in CallsOf("call_api") :
        calls[k].outcome # "ok" => RemoteFailureContained(k)

\* C5 (amended): whenever call_api raises APIException, the order becomes
\* api_failure, the failure stays inside the order and the priority update
\* and the persistence update follow.
C5_APIExceptionContained ==
    \A k \in CallsOf("call_api") :
        calls[k].outcome = "APIException" => RemoteFailureContained(k)

\* call_api raised APIException and the order was then sent to persistence.
C5_Witness ==
    \E k \in CallsOf("call_api") :
        /\ calls[k].outcome = "APIException"
        /\ k < Len(calls)
        /\ calls[k + 1].op = "update_order_status"
        /\ calls[k + 1].status = "api_failure"
        /\ calls[k + 1].priority = "high"

\* After a report append at position k of the log: the order is exported if
\* the append succeeded and export_failed if it raised, nothing escaped, and
\* the priority update and the persistence update of that order follow; the
\* status stays when the persistence update succeeds.
AppendOutcomeKept(k) ==
    LET j == calls[k].idx
        s == IF calls[k].outcome = "ok" THEN "exported" ELSE "export_failed"
    IN  IF k = Len(calls)
        THEN /\ pc \in {"priority", "save"}
             /\ i = j
             /\ orders[j].status = s
             /\ result = "none"
             /\ raised = "none"
        ELSE /\ calls[k + 1].op = "update_order_status"
             /\ calls[k + 1].idx = j
             /\ calls[k + 1].status = s
             /\ calls[k + 1].priority = (IF orders[j].amount > 200 THEN "high" ELSE "low")
             /\ calls[k + 1].outcome = "ok" => orders[j].status = s

\* C6: a type-A order is exported after the dispatch step if the report
\* append succeeded and export_failed if a write to the report failed, the
\* failure stays inside the order, the order still gets its priority update
\* and its persistence update, and it keeps the status when the persistence
\* update succeeds.
C6_TypeAStatus ==
    /\ \A k \in CallsOf("append") : AppendOutcomeKept(k)
    /\ \A j \in DOMAIN orders :
          (orders[j].type = "A" /\ (j < i \/ (j = i /\ pc \in {"priority", "save"})))
             => \E k \in CallsOf("append") : calls[k].idx = j

\* The second write of an append failed (the data row is in the report, the
\* note is not), and the order was sent to persistence as export_failed.
C6_Witness ==
    \E k \in CallsOf("append") :
        /\ calls[k].outcome = "IOError"
        /\ orders[calls[k].idx].amount > 150
        /\ Len(report) = 2
        /\ report[2][1] = ToString(calls[k].id)
        /\ k < Len(calls)
        /\ calls[k + 1].status = "export_failed"
        /\ calls[k + 1].outcome = "ok"
        /\ orders[calls[k].idx].status = "export_failed"

\* After a persistence update at position k of the log that raised: the
\* order is db_error, nothing escaped, and the loop went on to the next
\* order, or returned True after the last one.
SaveFailureContained(k) ==
    LET j == calls[k].idx
    IN  /\ orders[j].status = "db_error"
        /\ raised = "none"
        /\ IF j < Len(orders)
           THEN IF k = Len(calls)
                THEN pc \in {"dispatch", "priority", "save"} /\ i = j + 1 /\ result = "none"
                ELSE calls[k + 1].idx = j + 1
           ELSE pc = "done" /\ result = "True" /\ k = Len(calls)

\* C7 as stated: whenever update_order_status fails, whatever it raises, the
\* order becomes db_error, the failure is contained and the remaining orders
\* are still processed.
C7_AnySaveFailureContained ==
    \A k \in CallsOf("update_order_status") :
        calls[k].outcome # "ok" => SaveFailureContained(k)

\* C7 (amended): whenever update_order_status fails with DatabaseException,
\* the order becomes db_error whatever status the earlier steps produced, the
\* failure is contained and the remaining orders are still processed.
C7_DatabaseExceptionContained ==
    \A k \in CallsOf("update_order_status") :
        calls[k].outcome = "DatabaseException" => SaveFailureContained(k)

\* The update of the first order, sent as exported, raised DatabaseException;
\* the order is db_error and the second order went through persistence too.
C7_Witness ==
    /\ Done
    /\ result = "True"
    /\ Len(orders) = 2
    /\ orders[1].status = "db_error"
    /\ \E k \in CallsOf("update_order_status") :
          /\ calls[k].idx = 1
          /\ calls[k].status = "exported"
          /\ calls[k].outcome = "DatabaseException"
    /\ \E k \in CallsOf("update_order_status") : calls[k].idx = 2

\* In a run that returned True: one update_order_status per order, with the
\* order's id and priority, as the last call made for the order, and the
\* calls of the run follow the order of the list.
OneUpdatePerOrder ==
    /\ Cardinality(CallsOf("update_order_status")) = Len(orders)
    /\ \A j \in DOMAIN orders :
          \E k \in CallsOf("update_order_status") :
             /\ calls[k].idx = j
             /\ calls[k].id = orders[j].id
             /\ calls[k].priority = orders[j].priority
             /\ \A m \in DOMAIN calls : calls[m].idx = j => m <= k
    /\ \A m, n \in DOMAIN calls : m < n => calls[m].idx <= calls[n].idx

\* The persistence step sends the id, status and priority the order has when
\* the step starts; the priority step before it leaves the status alone.
UpdateSendsPipelineResult ==
    /\ pc = "priority" => orders'[i].status = orders[i].status
    /\ pc = "save" =>
          /\ Len(calls') = Len(calls) + 1
          /\ calls'[Len(calls')].op = "update_order_status"
          /\ calls'[Len(calls')].idx = i
          /\ calls'[Len(calls')].id = orders[i].id
          /\ calls'[Len(calls')].status = orders[i].status
          /\ calls'[Len(calls')].priority = orders[i].priority

\* C8: in every run that returns True, update_order_status is called exactly
\* once per fetched order, in input order, as the last step of the order's
\* pipeline (also for an order in a failure status), with the order's id,
\* the status the dispatch left and the priority the priority update set;
\* every call for one order precedes every call for the next.
C8_OneUpdatePerOrderInOrder ==
    [][/\ UpdateSendsPipelineResult
       /\ result' = "True" => OneUpdatePerOrder']_vars

\* A run that returned True after sending an export_failed order and then an
\* api_failure order to persistence.
C8_Witness ==
    /\ Done
    /\ result = "True"
    /\ Len(orders) = 2
    /\ \E k \in CallsOf("update_order_status") :
          calls[k].idx = 1 /\ calls[k].status = "export_failed"
    /\ \E k \in CallsOf("update_order_status") :
          calls[k].idx = 2 /\ calls[k].status = "api_failure"

\* The priority step has run for the order at position j.
PriorityStepRan(j) ==
    \/ j < i
    \/ j = i /\ pc = "save"
    \/ j = i /\ Done /\ LastCall.op = "update_order_status" /\ LastCall.idx = j

\* C9: once the pipeline of an order has run, its priority is high if and
\* only if its amount is above 200 (exactly 200 gives low), whatever the
\* type, the flag and the priority it came with, and whether or not the
\* append, the remote call or the persistence update failed.
C9_PriorityByAmount ==
    \A j \in DOMAIN orders :
        PriorityStepRan(j) => (orders[j].priority = "high" <=> orders[j].amount > 200)

\* A type-A order of amount 200 that came in as high (its report row says
\* so) is low after the pipeline, although its persistence update failed.
C9_Witness ==
    /\ Done
    /\ Len(orders) >= 1
    /\ orders[1].type = "A"
    /\ orders[1].amount = 200
    /\ Len(report) >= 2
    /\ report[2][6] = "high"
    /\ orders[1].priority = "low"
    /\ orders[1].status = "db_error"

\* C10: an order whose type is none of A, B, C gets unknown_type from the
\* dispatch step, and no report append and no remote call is made for it.
C10_UnknownType ==
    \A j \in DOMAIN orders :
        orders[j].type \notin {"A", "B", "C"} =>
           /\ (j = i /\ pc \in {"priority", "save"}) => orders[j].status = "unknown_type"
           /\ \A k \in DOMAIN calls :
                 calls[k].idx = j =>
                    /\ calls[k].op = "update_order_status"
                    /\ calls[k].status = "unknown_type"

\* An order of type D went through the pipeline after a type-A order that
\* was appended to the report.
C10_Witness ==
    /\ Done
    /\ Len(orders) = 2
    /\ orders[1].type = "A"
    /\ orders[2].type = "D"
    /\ orders[2].status = "unknown_type"
    /\ LastCall.idx = 2
    /\ LastCall.op = "update_order_status"

\* C11: the dispatch step sets a type-C order to completed when its flag is
\* set and to in_progress when it is not, whatever the amount, and makes no
\* report append and no remote call for it.
C11_TypeCStatus ==
    \A j \in DOMAIN orders :
        orders[j].type = "C" =>
           LET s == IF orders[j].flag THEN "completed" ELSE "in_progress"
           IN  /\ (j = i /\ pc \in {"priority", "save"}) => orders[j].status = s
               /\ \A k \in DOMAIN calls :
                     calls[k].idx = j =>
                        /\ calls[k].op = "update_order_status"
                        /\ calls[k].status = s

\* A flagged type-C order of a high-priority amount has left the dispatch
\* step as completed, after a type-B order whose remote call was made.
C11_Witness ==
    /\ pc = "priority"
    /\ i = 2
    /\ orders[1].type = "B"
    /\ orders[2].type = "C"
    /\ orders[2].flag
    /\ orders[2].amount > 200
    /\ orders[2].status = "completed"

\* The rows a successful export of the order adds: its data row, then the
\* note if and only if the amount is above 150.
ExportedRows(order) ==
    <<<<ToString(order.id), order.type, ToString(order.amount),
        IF order.flag THEN "true" ELSE "false", order.status, order.priority>>>>
      \o (IF order.amount > 150
          THEN <<<<"", "", "", "", "Note", "High value order">>>>
          ELSE <<>>)

\* C12: a successful export of a type-A order adds to the report exactly one
\* data row for the order, followed by exactly one annotation row ("Note",
\* "High value order") if the amount is above 150 and by none if it is 150 or
\* less.
C12_ExportRows ==
    [][(pc = "dispatch" /\ orders[i].type = "A" /\ orders'[i].status = "exported")
          => report' = report \o ExportedRows(orders[i])]_vars

\* A type-A order of amount exactly 150 was exported: its data row ends the
\* report, without a note.
C12_Witness ==
    /\ pc = "priority"
    /\ orders[i].type = "A"
    /\ orders[i].amount = 150
    /\ orders[i].status = "exported"
    /\ Len(report) = 2
    /\ report[2][1] = ToString(orders[i].id)

\* The dispatch step has run for the order at position j.
Dispatched(j) == j < i \/ (j = i /\ pc \in {"priority", "save", "done"})

\* C13: call_api is invoked exactly once for each type-B order that is
\* processed, with that order's id, and never for an order of another type;
\* in a run that returns True the number of remote calls is the number of
\* type-B orders.
C13_OneRemoteCallPerTypeB ==
    /\ \A k \in CallsOf("call_api") :
          /\ calls[k].idx \in DOMAIN orders
          /\ orders[calls[k].idx].type = "B"
          /\ calls[k].id = orders[calls[k].idx].id
    /\ \A j \in DOMAIN orders :
          Cardinality({k \in CallsOf("call_api") : calls[k].idx = j})
             = (IF orders[j].type = "B" /\ Dispatched(j) THEN 1 ELSE 0)
    /\ (Done /\ result = "True") =>
          Cardinality(CallsOf("call_api"))
             = Cardinality({j \in DOMAIN orders : orders[j].type = "B"})

\* A run of a type-C order and a type-B order returned True with one remote
\* call, made for the second order.
C13_Witness ==
    /\ Done
    /\ result = "True"
    /\ Len(orders) = 2
    /\ orders[1].type = "C"
    /\ orders[2].type = "B"
    /\ Cardinality(CallsOf("call_api")) = 1
    /\ \E k \in CallsOf("call_api") : calls[k].id = orders[2].id

\* The fetch returned a non-empty list and the report creation is over.
PastCreation ==
    /\ pc \notin {"fetch", "create"}
    /\ calls[1].outcome = "ok"
    /\ orders # <<>>

\* One report file exists, it starts with the header, the header occurs
\* nowhere else, and the one creation precedes every per-order call.
OneReportHeaderFirst ==
    /\ files = 1
    /\ Cardinality(CallsOf("create")) = 1
    /\ calls[2].op = "create"
    /\ \A k \in DOMAIN calls : k > 2 => calls[k].op \in PerOrderOps
    /\ i >= 1 =>
          /\ Len(report) >= 1
          /\ report[1] = <<"ID", "Type", "Amount", "Flag", "Status", "Priority">>
          /\ \A k \in 2..Len(report) : report[k] # report[1]
          /\ csv_file = "orders_type_A.csv"

\* C14 as stated: in every run with a non-empty fetch exactly one report
\* file is created, its header is written before any order is dispatched,
\* appended to or persisted, and every append goes to that file.
C14_OneReportEveryRun ==
    PastCreation => OneReportHeaderFirst

\* C14 (amended): in every run with a non-empty fetch whose report creation
\* does not fail, exactly one report file is created, its header is written
\* before any order is dispatched, appended to or persisted, and every
\* type-A append of the run goes to that file; when the creation fails, at
\* most one file is created and no order is touched.
C14_OneReportWhenCreated ==
    /\ (PastCreation /\ calls[2].outcome = "ok") => (OneReportHeaderFirst /\ i >= 1)
    /\ files <= 1
    /\ (\E k \in DOMAIN calls : calls[k].op \in PerOrderOps) => BatchStarted
    /\ ~BatchStarted => (i = 0 /\ \A j \in DOMAIN orders : orders[j].status = "new")

\* Two type-A orders were exported into the one report, after its header.
C14_Witness ==
    /\ Done
    /\ result = "True"
    /\ Len(orders) = 2
    /\ orders[1].status = "exported"
    /\ orders[2].status = "exported"
    /\ files = 1
    /\ Len(report) >= 3
    /\ report[1][1] = "ID"

\* The statuses the dispatch step can leave.
DispatchOutcomes ==
    {"exported", "export_failed", "processed", "pending", "error", "api_error",
     "api_failure", "completed", "in_progress", "unknown_type"}

\* The persistence step has run for the order at position j.
Persisted(j) ==
    \E k \in CallsOf("update_order_status") : calls[k].idx = j

\* An order not yet dispatched is new; one whose persistence step has run
\* is in a dispatch outcome or db_error, with an enumerated priority; and
\* db_error goes with a persistence update that raised DatabaseException.
StatusStateMachine ==
    \A j \in DOMAIN orders :
        /\ ~Dispatched(j) => orders[j].status = "new"
        /\ Persisted(j) =>
              /\ orders[j].status \in DispatchOutcomes \cup {"db_error"}
              /\ orders[j].priority \in {"low", "high"}
        /\ orders[j].status = "db_error" =>
              \E k \in CallsOf("update_order_status") :
                  calls[k].idx = j /\ calls[k].outcome = "DatabaseException"

\* Only the persistence step of an order moves it to db_error, and nothing
\* changes an order once its persistence step has run.
StatusTransitions ==
    \A j \in DOMAIN orders :
        /\ (orders'[j].status = "db_error" /\ orders[j].status # "db_error")
              => (pc = "save" /\ i = j)
        /\ Persisted(j) => orders'[j] = orders[j]

\* C15: an order starts at new; once its pipeline has completed its status
\* is a dispatch outcome or db_error, never new; db_error is entered only
\* from the persistence step; and after the persistence step of an order its
\* status and priority never change again in the run.
C15_StatusStateMachine ==
    /\ []StatusStateMachine
    /\ [][StatusTransitions]_vars

\* The first order went to db_error in its persistence step and kept it
\* while the second order ran through its pipeline.
C15_Witness ==
    /\ Done
    /\ result = "True"
    /\ Len(orders) = 2
    /\ orders[1].status = "db_error"
    /\ orders[2].type = "C"
    /\ orders[2].status = "in_progress"

\* Rows of the report that are the data row of the order with the given id.
DataRowsOf(id) == {r \in DOMAIN report : r > 1 /\ report[r][1] = ToString(id)}

\* C16: each report append is all rows of one order or none: after the export
\* step of a type-A order of amount above 150 the report holds either its
\* data row followed by its annotation row or neither of them, and an order
\* that is export_failed has left no row in the report.
C16_AppendAllOrNothing ==
    \A k \in CallsOf("append") :
        LET j == calls[k].idx
            rows == DataRowsOf(calls[k].id)
        IN  /\ orders[j].amount > 150 =>
                  \A r \in rows :
                      /\ r < Len(report)
                      /\ report[r + 1] = <<"", "", "", "", "Note", "High value order">>
            /\ orders[j].status = "export_failed" => rows = {}

\* The step taken made a per-order call that raised something its own
\* handler does not take.
StepRaisedUnhandled ==
    /\ Len(calls') = Len(calls) + 1
    /\ calls'[Len(calls')].op \in PerOrderOps
    /\ calls'[Len(calls')].outcome
          \notin {"ok", DeclaredFailure(calls'[Len(calls')].op)}

\* C17: _process_single_order contains nothing itself: a failure of the
\* dispatch step or the persistence step that the step did not contain
\* reaches the caller, the order is left as the failing step found it, and
\* the later steps of the order are skipped (after a failing dispatch, no
\* priority update and no persistence update).
C17_SingleOrderContainsNothing ==
    [][/\ (pc \in {"dispatch", "save"} /\ StepRaisedUnhandled) =>
             /\ pc' = "done"
             /\ result' = "False"
             /\ orders' = orders
             /\ i' = i
             /\ calls'[Len(calls')].idx = i
       /\ pc # "done"]_vars

\* The remote call of a type-B order of a high-priority amount raised an
\* exception other than APIException: the run is over, the order is still
\* new and low, and no persistence update was made for it.
C17_Witness ==
    /\ Done
    /\ result = "False"
    /\ i = 1
    /\ LastCall.op = "call_api"
    /\ LastCall.outcome = "RuntimeError"
    /\ orders[1].amount > 200
    /\ orders[1].status = "new"
    /\ orders[1].priority = "low"
    /\ CallsOf("update_order_status") = {}

\* Every order but the one at position j is unchanged by the step, and so
\* are the id, type, amount and flag of that one.
OnlyOrderChanges(j) ==
    \A m \in DOMAIN orders :
        /\ m # j => orders'[m] = orders[m]
        /\ orders'[m].id = orders[m].id
        /\ orders'[m].type = orders[m].type
        /\ orders'[m].amount = orders[m].amount
        /\ orders'[m].flag = orders[m].flag

\* C18: no step changes an order's id, type, amount or flag; the dispatch
\* step changes only the status; the priority step changes only the priority
\* and calls no collaborator; the persistence step changes nothing on
\* success and only the status on failure.
C18_FrameConditions ==
    [][/\ DOMAIN orders' = DOMAIN orders
       /\ pc \in {"fetch", "create"} => orders' = orders
       /\ pc = "dispatch" =>
             /\ OnlyOrderChanges(i)
             /\ orders'[i].priority = orders[i].priority
       /\ pc = "priority" =>
             /\ OnlyOrderChanges(i)
             /\ orders'[i].status = orders[i].status
             /\ calls' = calls
             /\ report' = report
       /\ pc = "save" =>
             /\ OnlyOrderChanges(i)
             /\ orders'[i].priority = orders[i].priority
             /\ calls'[Len(calls')].outcome = "ok" => orders' = orders
             /\ report' = report]_vars

\* A type-A order that came in as high has left the dispatch step exported
\* and still high.
C18_Witness ==
    /\ pc = "priority"
    /\ orders[i].type = "A"
    /\ orders[i].status = "exported"
    /\ orders[i].priority = "high"

\* C19: db_error is never sent to the persistence layer: every
\* update_order_status call carries the status the dispatch left (one of its
\* ten outcomes, never db_error, never new), the update of an order is
\* attempted once and not retried, and after a failed update the status in
\* memory (db_error) differs from the one submitted.
C19_DbErrorNeverPersisted ==
    /\ \A k \in CallsOf("update_order_status") :
          /\ calls[k].status \in DispatchOutcomes
          /\ calls[k].outcome = "DatabaseException" =>
                /\ orders[calls[k].idx].status = "db_error"
                /\ orders[calls[k].idx].status # calls[k].status
    /\ \A j \in DOMAIN orders :
          Cardinality({k \in CallsOf("update_order_status") : calls[k].idx = j}) <= 1

\* The update of an order was submitted with api_failure and raised
\* DatabaseException: the order is db_error and the run went on to its end.
C19_Witness ==
    /\ Done
    /\ result = "True"
    /\ Len(orders) = 2
    /\ \E k \in CallsOf("update_order_status") :
          /\ calls[k].idx = 1
          /\ calls[k].status = "api_failure"
          /\ calls[k].outcome = "DatabaseException"
    /\ orders[1].status = "db_error"

\* C20: the data row appended for a type-A order carries the status and the
\* priority the order had before processing (new, and low for an order as
\* constructed), never exported and never the recomputed priority; so for a
\* type-A order of amount above 200 the row says low while the priority
\* submitted to persistence is high.
C20_RowCarriesEntryState ==
    \A k \in CallsOf("append") :
        LET j == calls[k].idx
        IN  /\ calls[k].status = "new"
            /\ \A r \in DataRowsOf(calls[k].id) :
                  /\ report[r][5] = "new"
                  /\ report[r][6] = calls[k].priority
                  /\ orders[j].amount > 200 => report[r][6] = "low"
            /\ \A u \in CallsOf("update_order_status") :
                  (calls[u].idx = j /\ orders[j].amount > 200)
                     => calls[u].priority = "high"

\* The report row of a type-A order of amount above 200 says new and low,
\* and the order was sent to persistence as exported and high.
C20_Witness ==
    \E k \in CallsOf("append") :
        /\ orders[calls[k].idx].amount > 200
        /\ \E r \in DataRowsOf(calls[k].id) :
              report[r][5] = "new" /\ report[r][6] = "low"
        /\ \E u \in CallsOf("update_order_status") :
              /\ calls[u].idx = calls[k].idx
              /\ calls[u].status = "exported"
              /\ calls[u].priority = "high"

\* Positions of the log holding a call of op made for the order at position j.
CallsFor(op, j) == {k \in CallsOf(op) : calls[k].idx = j}

\* The order at position j went through dispatch, priority and persistence:
\* its handler made its one collaborator call, its status is a dispatch
\* outcome or db_error, its priority is the recomputed one, and exactly one
\* persistence update was made for it, which returned or was contained.
CompletedPipeline(j) ==
    /\ orders[j].status \in DispatchOutcomes \cup {"db_error"}
    /\ orders[j].priority = PriorityOf(orders[j])
    /\ Cardinality(CallsFor("append", j)) = IF orders[j].type = "A" THEN 1 ELSE 0
    /\ Cardinality(CallsFor("call_api", j)) = IF orders[j].type = "B" THEN 1 ELSE 0
    /\ Cardinality(CallsFor("update_order_status", j)) = 1
    /\ \A k \in CallsFor("update_order_status", j) :
          /\ calls[k].outcome \in {"ok", "DatabaseException"}
          /\ calls[k].priority = orders[j].priority
          /\ orders[j].status =
                IF calls[k].outcome = "ok" THEN calls[k].status ELSE "db_error"

\* Nothing was done for the order at position j: it is new, no row of the
\* report is about it and no collaborator was called for it.
Untouched(j) ==
    /\ orders[j].status = "new"
    /\ DataRowsOf(orders[j].id) = {}
    /\ \A op \in PerOrderOps : CallsFor(op, j) = {}

\* The run ended False after a non-empty fetch and a created report, so an
\* uncontained failure stopped it at the order at position i.
AbortedInBatch == Done /\ result = "False" /\ BatchStarted

\* The run ended in the fetch or in the creation of the report.
EndedBeforeBatch == Done /\ ~BatchStarted

\* C21: when an uncontained failure aborts the run at order k (False after a
\* non-empty fetch and a created report), every order before k has completed
\* its pipeline with exactly one persistence update, and every order after k
\* is untouched: still new, no report row, no remote call and no persistence
\* update for it; when the run ends in the fetch or in the report creation,
\* every order is untouched.  No step changes an order behind the one in the
\* pipeline, so the status and the priority of an untouched order are the
\* ones it came with.
C21_AbortLeavesPrefixDone ==
    /\ [](AbortedInBatch =>
             /\ i \in DOMAIN orders
             /\ LastCall.idx = i
             /\ LastCall.outcome \notin {"ok", DeclaredFailure(LastCall.op)}
             /\ \A j \in DOMAIN orders :
                   /\ j < i => CompletedPipeline(j)
                   /\ j > i => Untouched(j))
    /\ [](EndedBeforeBatch => \A j \in DOMAIN orders : Untouched(j))
    /\ [][\A j \in DOMAIN orders : j > i => orders'[j] = orders[j]]_vars

\* The persistence update of the first of two orders raised an exception
\* other than DatabaseException: the run returned False, and the second
\* order, which came in as high with an amount that recomputes to low, is
\* still new and high, with no row and no call.
C21_Witness ==
    /\ AbortedInBatch
    /\ i = 1
    /\ Len(orders) = 2
    /\ LastCall.op = "update_order_status"
    /\ LastCall.outcome = "RuntimeError"
    /\ orders[2].type = "A"
    /\ orders[2].amount = 200
    /\ orders[2].priority = "high"
    /\ orders[2].status = "new"
    /\ DataRowsOf(orders[2].id) = {}
    /\ CallsFor("append", 2) = {}

====
